---- MODULE Spec2Model ----
(***************************************************************************)
(* A model of Extended-Scheduler: one Job (src/Job.py) driving one Trigger *)
(* (src/triggers/*.py), the Job's loop thread, concurrent callers of the   *)
(* Job's public operations, and the wall clock.                            *)
(*                                                                         *)
(* Time.  time.time() is the variable now.  One unit of model time is one  *)
(* polling quantum (the 0.01 s of time.sleep(0.01)), so a value of seconds *)
(* in the code is a number of units here and a value of milliseconds is    *)
(* MsPerUnit times that number.  The clock starts at Epoch0, the time      *)
(* since the epoch at which the trigger is constructed.                    *)
(*                                                                         *)
(* Threads.  The loop thread is the program counter pc, one value per      *)
(* statement of Job._run that reads or writes shared state.  Every public  *)
(* operation runs under the Job's RLock and is one action; so is each      *)
(* "with self._lock" block of the loop.  Each Trigger method runs under    *)
(* the Trigger's RLock and is one atomic evaluation.  The statement        *)
(* "self.trigger.current_index += 1" of the loop holds no lock and is a    *)
(* read step followed by a write step.                                     *)
(***************************************************************************)
EXTENDS Integers, Sequences, FiniteSets, TLC

\* ---------------------------------------------------------------- bounds
\* time.time() when the trigger is constructed, in units since the epoch
Epoch0 == 20
\* the clock runs from Epoch0 to Epoch0 + MaxTime
MaxTime == 2
\* longest list of timestamps given to a TimestampTrigger
MaxLen == 2
\* largest run cap of an IntervalTrigger
MaxRuns == 2
\* largest period of an IntervalTrigger
MaxPeriod == 2
\* dispatches of one Job are followed up to this count
MaxExec == 3
\* the callers make at most this many calls of pause() that return true
MaxPauses == 1
\* the clock of the promptly scheduled runs goes from Epoch0 to Epoch0 + MaxTimeTimed
MaxTimeTimed == 6
\* the longest period of an Interval job that is paused for more than a period
MaxPausePeriod == 3
\* units of time after Epoch0 in the runs of such a job
MaxTimePause == 7

\* -------------------------------------------------------------- constants
\* milliseconds in one unit of time (the factor 1000 of the code, per quantum)
MsPerUnit == 10
\* time.sleep(0.01): one polling quantum
Quantum == 1

\* Python's None for an optional instant (instants are >= 0)
None == -1

Min(a, b) == IF a <= b THEN a ELSE b

VARIABLES
    now,                    \* time.time()
    trigger,                \* Job.trigger: the Trigger object's fields
    status,                 \* Job.status
    start_time,             \* Job.start_time
    pause_time,             \* Job.pause_time
    total_pause_duration,   \* Job.total_pause_duration
    execution_count,        \* Job.execution_count
    cancel_event,           \* Job.cancel_event.is_set()
    pause_event,            \* Job.pause_event.is_set()
    pc,                     \* Job.thread: position of the loop thread in _run
    next_run_time,          \* _run local next_run_time
    wait_time,              \* _run local wait_time
    end_wait_time,          \* _run local end_wait_time
    wake,                   \* instant at which the current time.sleep returns
    index_read,             \* value read by the unlocked "current_index += 1"
    dispatched,             \* history: the run time of each execution thread started
    cancelled,              \* history: cancel() has returned
    paused,                 \* history: how often pause() has returned true
    ret,                    \* what the last start(), pause() or resume() returned
    probe,                  \* the last call made on the Trigger alone, with its result
    results,                \* history: how each execution thread's work item ended
    jobs,                   \* Scheduler.jobs: the registered job ids, in insertion order
    created,                \* the job ids for which a Job object has been constructed
    lock_owner,             \* the thread that holds each RLock
    lock_count,             \* how often the owner of each RLock has acquired it
    frame                   \* the statements each thread has still to execute

vars == <<now, trigger, status, start_time, pause_time, total_pause_duration,
          execution_count, cancel_event, pause_event, pc, next_run_time,
          wait_time, end_wait_time, wake, index_read, dispatched, cancelled,
          paused, ret, probe, results, jobs, created, lock_owner, lock_count,
          frame>>

jobFields == <<status, start_time, pause_time, total_pause_duration,
               execution_count, cancel_event, pause_event>>
locals == <<next_run_time, wait_time, end_wait_time, wake, index_read>>
history == <<dispatched, cancelled, paused, probe, results>>
sync == <<jobs, created, lock_owner, lock_count, frame>>

\* ------------------------------------------------------------- triggers
\* sorted(timestamps): insertion of x into an ascending sequence
RECURSIVE Insert(_, _)
Insert(x, s) ==
    IF s = <<>> THEN <<x>>
    ELSE IF x <= Head(s) THEN <<x>> \o s
    ELSE <<Head(s)>> \o Insert(x, Tail(s))

RECURSIVE sorted(_)
sorted(s) == IF s = <<>> THEN <<>> ELSE Insert(Head(s), sorted(Tail(s)))

\* The fields of every variant in one record; a variant leaves the fields of
\* the others at their defaults.
BlankTrigger ==
    [trigger_type |-> "none", timestamps |-> <<>>, current_index |-> 0,
     interval_seconds |-> 0, max_runs |-> None, run_count |-> 0,
     start_time |-> None, next_run_time |-> None,
     run_time |-> None, executed |-> FALSE,
     cron_expression |-> 0, cron |-> None]

\* TimestampTrigger.__init__; current_index counts from 0 as in the code
TimestampTrigger(timestamps) ==
    [BlankTrigger EXCEPT !.trigger_type = "timestamp",
                         !.timestamps = sorted(timestamps),
                         !.current_index = 0]

\* IntervalTrigger.__init__ at instant t: start_time or time.time()
IntervalTrigger(interval_seconds, max_runs, start, t) ==
    LET st == IF start = None \/ start = 0 THEN t ELSE start IN
    [BlankTrigger EXCEPT !.trigger_type = "interval",
                         !.interval_seconds = interval_seconds,
                         !.max_runs = max_runs,
                         !.run_count = 0,
                         !.start_time = st,
                         !.next_run_time = st]

\* OneTimeTrigger.__init__ with a float run_at
OneTimeTrigger(run_at) ==
    [BlankTrigger EXCEPT !.trigger_type = "one_time",
                         !.run_time = run_at,
                         !.executed = FALSE]

\* CronTrigger.__init__ at instant t.  A cron expression is modelled by the
\* distance of its occurrences, which are the multiples of that distance on
\* the clock ("*/n"); cron is the instant the croniter stands at, which is
\* start_time at construction.
CronTrigger(cron_expression, max_runs, start, t) ==
    LET st == IF start = None THEN t ELSE start IN
    [BlankTrigger EXCEPT !.trigger_type = "cron",
                         !.cron_expression = cron_expression,
                         !.max_runs = max_runs,
                         !.run_count = 0,
                         !.start_time = st,
                         !.cron = st]

\* milliseconds of an instant in seconds: after_time * 1000
SecToMs(t) == t * MsPerUnit
\* seconds of an instant in milliseconds: ts / 1000.0 (the model's lists
\* hold whole units only, so the division is exact)
MsToSec(ms) == ms \div MsPerUnit

\* a scan that stops at an entry equal to the reference time
RECURSIVE TimestampScanNonStrict(_, _, _)
TimestampScanNonStrict(ts, i, after_time_ms) ==
    IF i < Len(ts)
    THEN IF ts[i + 1] >= after_time_ms
         THEN [ret |-> MsToSec(ts[i + 1]), index |-> i]
         ELSE TimestampScanNonStrict(ts, i + 1, after_time_ms)
    ELSE [ret |-> None, index |-> i]

\* TimestampTrigger.get_next_run_time: the scan from cursor i
RECURSIVE TimestampScan(_, _, _)
TimestampScan(ts, i, after_time_ms) ==
    IF i < Len(ts)
    THEN IF ts[i + 1] > after_time_ms
         THEN [ret |-> MsToSec(ts[i + 1]), index |-> i]
         ELSE TimestampScan(ts, i + 1, after_time_ms)
    ELSE [ret |-> None, index |-> i]

TimestampGetNextRunTime(t, after_time) ==
    LET r == TimestampScan(t.timestamps, t.current_index, SecToMs(after_time)) IN
    [ret |-> r.ret, trigger |-> [t EXCEPT !.current_index = r.index]]

\* an advance that stops when the anchor has reached after_time
RECURSIVE IntervalAdvanceNonStrict(_, _, _)
IntervalAdvanceNonStrict(nrt, interval_seconds, after_time) ==
    IF nrt < after_time
    THEN IntervalAdvanceNonStrict(nrt + interval_seconds, interval_seconds, after_time)
    ELSE nrt

\* an advance by one period at most
IntervalAdvanceOnce(nrt, interval_seconds, after_time) ==
    IF nrt <= after_time THEN nrt + interval_seconds ELSE nrt

\* IntervalTrigger.get_next_run_time: the anchor advanced past after_time
RECURSIVE IntervalAdvance(_, _, _)
IntervalAdvance(nrt, interval_seconds, after_time) ==
    IF nrt <= after_time
    THEN IntervalAdvance(nrt + interval_seconds, interval_seconds, after_time)
    ELSE nrt

IntervalGetNextRunTime(t, after_time) ==
    IF t.max_runs # None /\ t.run_count >= t.max_runs
    THEN [ret |-> None, trigger |-> t]
    ELSE LET n == IntervalAdvance(t.next_run_time, t.interval_seconds, after_time) IN
         [ret |-> n, trigger |-> [t EXCEPT !.next_run_time = n]]

\* a OneTime query that gives up a target that has passed
OneTimeGetNextRunTimeFutureOnly(t, after_time) ==
    IF t.executed
    THEN [ret |-> None, trigger |-> t]
    ELSE IF t.run_time > after_time
         THEN [ret |-> t.run_time, trigger |-> t]
         ELSE [ret |-> None, trigger |-> t]

\* OneTimeTrigger.get_next_run_time
OneTimeGetNextRunTime(t, after_time) ==
    IF t.executed
    THEN [ret |-> None, trigger |-> t]
    ELSE IF t.run_time > after_time
         THEN [ret |-> t.run_time, trigger |-> t]
         ELSE [ret |-> t.run_time, trigger |-> t]

\* croniter.get_next: the first occurrence after the instant it stands at
CronNext(cron_expression, cur) == (cur \div cron_expression + 1) * cron_expression

\* CronTrigger.get_next_run_time: after_time is not used; every call moves
\* the croniter by one occurrence
CronGetNextRunTime(t, after_time) ==
    IF t.max_runs # None /\ t.run_count >= t.max_runs
    THEN [ret |-> None, trigger |-> t]
    ELSE LET n == CronNext(t.cron_expression, t.cron) IN
         [ret |-> n, trigger |-> [t EXCEPT !.cron = n]]

\* Trigger.get_next_run_time, by variant
get_next_run_time(t, after_time) ==
    CASE t.trigger_type = "timestamp" -> TimestampGetNextRunTime(t, after_time)
      [] t.trigger_type = "interval" -> IntervalGetNextRunTime(t, after_time)
      [] t.trigger_type = "one_time" -> OneTimeGetNextRunTime(t, after_time)
      [] t.trigger_type = "cron" -> CronGetNextRunTime(t, after_time)

\* Trigger.is_finished, by variant
is_finished(t) ==
    CASE t.trigger_type = "timestamp" -> t.current_index >= Len(t.timestamps)
      [] t.trigger_type = "interval" ->
            t.max_runs # None /\ t.run_count >= t.max_runs
      [] t.trigger_type = "one_time" -> t.executed
      [] t.trigger_type = "cron" ->
            t.max_runs # None /\ t.run_count >= t.max_runs

\* hasattr(trigger, 'mark_executed')
has_mark_executed(t) == t.trigger_type \in {"interval", "one_time", "cron"}

\* a mark_executed that assigns the run count instead of incrementing it
mark_executed_assign(t) ==
    CASE t.trigger_type = "interval" -> [t EXCEPT !.run_count = 1]
      [] t.trigger_type = "one_time" -> [t EXCEPT !.executed = TRUE]
      [] t.trigger_type = "cron" -> [t EXCEPT !.run_count = 1]

\* Trigger.mark_executed, by variant
mark_executed(t) ==
    CASE t.trigger_type = "interval" -> [t EXCEPT !.run_count = @ + 1]
      [] t.trigger_type = "one_time" -> [t EXCEPT !.executed = TRUE]
      [] t.trigger_type = "cron" -> [t EXCEPT !.run_count = @ + 1]

\* ---------------------------------------------------------- construction
\* the lists of millisecond instants a caller passes to add_timestamp_job:
\* instants counted from the start of the job (0, 10 ms, ...) and instants
\* counted from the epoch that lie after the construction
RelInstants == {SecToMs(k) : k \in 0..1}
AbsInstants == {SecToMs(Epoch0 + k) : k \in 1..MaxTime}

SeqsUpTo(S, n) == UNION {[1..k -> S] : k \in 0..n}

TimestampInputs == SeqsUpTo(RelInstants, MaxLen) \cup SeqsUpTo(AbsInstants, MaxLen)

Caps == {None} \cup 1..MaxRuns

\* the triggers Scheduler.add_*_job constructs at instant t
Triggers(t) ==
    {TimestampTrigger(s) : s \in TimestampInputs}
    \cup {IntervalTrigger(p, c, None, t) : p \in 1..MaxPeriod, c \in Caps}
    \cup {OneTimeTrigger(r) : r \in {t - 1, t + 2}}

\* ------------------------------------------------- threads and locks
\* the job ids the callers use
JobIds == {"a", "b"}

\* the threads of the application that call the Scheduler
Callers == {<<"caller", "c1">>, <<"caller", "c2">>}

\* the thread among them that also calls the Job objects themselves
JobCallers == {<<"caller", "c2">>}

\* Job.thread of the Job with id j
LoopThread(j) == <<"loop", j>>

Threads == Callers \cup {LoopThread(j) : j \in JobIds}

NoThread == <<"none", "-">>

\* Scheduler._lock, Job._lock and Trigger._lock of the Job with id j
SchedulerLock == <<"Scheduler", "-">>
JobLock(j) == <<"Job", j>>
TriggerLock(j) == <<"Trigger", j>>

Locks == {SchedulerLock} \cup {JobLock(j) : j \in JobIds}
                         \cup {TriggerLock(j) : j \in JobIds}

\* Scheduler.__init__: no job, no lock held, no call under way
SchedulerInit ==
    /\ jobs = <<>>
    /\ created = {}
    /\ lock_owner = [l \in Locks |-> NoThread]
    /\ lock_count = [l \in Locks |-> 0]
    /\ frame = [t \in Threads |-> <<>>]

\* no call has been made on the Trigger alone
NoProbe == [op |-> "none", after_time |-> None, ret |-> None]

\* Job.__init__
JobInit ==
    /\ status = "RUNNING"
    /\ start_time = None
    /\ pause_time = None
    /\ total_pause_duration = 0
    /\ execution_count = 0
    /\ cancel_event = FALSE
    /\ pause_event = FALSE
    /\ pc = "none"
    /\ next_run_time = None
    /\ wait_time = 0
    /\ end_wait_time = None
    /\ wake = None
    /\ index_read = None
    /\ dispatched = <<>>
    /\ cancelled = FALSE
    /\ paused = 0
    /\ ret = FALSE
    /\ probe = NoProbe
    /\ results = <<>>
    /\ SchedulerInit

Init ==
    /\ now = Epoch0
    /\ trigger \in Triggers(Epoch0)
    /\ JobInit

\* ------------------------------------------------------------ the clock
Horizon == Epoch0 + MaxTime

\* time passes; any thread may be delayed for any length of time
Tick ==
    /\ now < Horizon
    /\ now' = now + 1
    /\ UNCHANGED <<sync, trigger, jobFields, pc, locals, history, ret>>

\* ---------------------------------------------------- public operations
\* Job.thread is None or not is_alive()
ThreadDead == pc \in {"none", "done", "failed"}

\* a start() that does not look at the thread
start_unchecked ==
    /\ start_time' = now
    /\ cancel_event' = FALSE
    /\ pause_event' = FALSE
    /\ pc' = "L68"
    /\ next_run_time' = None
    /\ wait_time' = 0
    /\ end_wait_time' = None
    /\ wake' = None
    /\ index_read' = None
    /\ ret' = TRUE
    /\ UNCHANGED <<sync, now, trigger, status, pause_time, total_pause_duration,
                   execution_count, history>>

\* Job.start
start ==
    IF ~ThreadDead
    THEN /\ ret' = FALSE
         /\ UNCHANGED <<sync, now, trigger, jobFields, pc, locals, history>>
    ELSE /\ start_time' = now
         /\ cancel_event' = FALSE
         /\ pause_event' = FALSE
         /\ pc' = "L68"
         /\ next_run_time' = None
         /\ wait_time' = 0
         /\ end_wait_time' = None
         /\ wake' = None
         /\ index_read' = None
         /\ ret' = TRUE
         /\ UNCHANGED <<sync, now, trigger, status, pause_time, total_pause_duration,
                        execution_count, history>>

\* a pause() that only refuses a removed Job
pause_any_status ==
    IF status # "REMOVED"
    THEN /\ paused < MaxPauses
         /\ pause_event' = TRUE
         /\ ret' = TRUE
         /\ paused' = paused + 1
         /\ UNCHANGED <<sync, now, trigger, status, start_time, pause_time,
                        total_pause_duration, execution_count, cancel_event,
                        pc, locals, dispatched, cancelled, probe, results>>
    ELSE /\ ret' = FALSE
         /\ UNCHANGED <<sync, now, trigger, jobFields, pc, locals, history>>

\* Job.pause
pause ==
    IF status = "RUNNING"
    THEN /\ paused < MaxPauses
         /\ pause_event' = TRUE
         /\ ret' = TRUE
         /\ paused' = paused + 1
         /\ UNCHANGED <<sync, now, trigger, status, start_time, pause_time,
                        total_pause_duration, execution_count, cancel_event,
                        pc, locals, dispatched, cancelled, probe, results>>
    ELSE /\ ret' = FALSE
         /\ UNCHANGED <<sync, now, trigger, jobFields, pc, locals, history>>

\* Job.resume
resume ==
    IF status = "PAUSED" \/ pause_event
    THEN /\ pause_event' = FALSE
         /\ ret' = TRUE
         /\ UNCHANGED <<sync, now, trigger, status, start_time, pause_time,
                        total_pause_duration, execution_count, cancel_event,
                        pc, locals, history>>
    ELSE /\ ret' = FALSE
         /\ UNCHANGED <<sync, now, trigger, jobFields, pc, locals, history>>

\* a cancel() that leaves the pause signal as it is
cancel_keeps_pause ==
    /\ status' = "REMOVED"
    /\ cancel_event' = TRUE
    /\ cancelled' = TRUE
    /\ UNCHANGED <<sync, now, trigger, start_time, pause_time, total_pause_duration,
                   execution_count, pause_event, pc, locals, dispatched,
                   paused, ret, probe, results>>

\* a cancel() that signals the loop and leaves the status to it
cancel_signal_only ==
    /\ cancel_event' = TRUE
    /\ pause_event' = FALSE
    /\ cancelled' = TRUE
    /\ UNCHANGED <<sync, now, trigger, status, start_time, pause_time,
                   total_pause_duration, execution_count, pc, locals,
                   dispatched, paused, ret, probe, results>>

\* Job.cancel
cancel ==
    /\ status' = "REMOVED"
    /\ cancel_event' = TRUE
    /\ pause_event' = FALSE
    /\ cancelled' = TRUE
    /\ UNCHANGED <<sync, now, trigger, start_time, pause_time, total_pause_duration,
                   execution_count, pc, locals, dispatched, paused, ret, probe,
                   results>>

\* Job.get_status: the snapshot is read-only but for the live query of the
\* trigger, which moves a Timestamp cursor and an Interval anchor
get_status ==
    /\ trigger' = get_next_run_time(trigger, now).trigger
    /\ UNCHANGED <<sync, now, jobFields, pc, locals, history, ret>>

\* Job.get_status, lines 173-175: the 'elapsed_time_ms' of the snapshot a call
\* returns in the current state ("if self.start_time" is false for None and 0)
elapsed_time_ms ==
    IF start_time # None /\ start_time # 0
    THEN (now - start_time - total_pause_duration) * MsPerUnit
    ELSE 0

\* ------------------------------------------------------- the loop thread
\* Job._run, one action per statement; Lnn is line nn of src/Job.py

\* line 68: while not self.trigger.is_finished()
RunWhile ==
    /\ pc = "L68"
    /\ pc' = IF is_finished(trigger) THEN "L133" ELSE "L69"
    /\ UNCHANGED <<sync, now, trigger, jobFields, locals, history, ret>>

\* lines 69-70: if self.cancel_event.is_set(): break
RunCancelCheck ==
    /\ pc = "L69"
    /\ pc' = IF cancel_event THEN "L133" ELSE "L73"
    /\ UNCHANGED <<sync, now, trigger, jobFields, locals, history, ret>>

\* line 73: if self.pause_event.is_set()
RunPauseCheck ==
    /\ pc = "L73"
    /\ pc' = IF pause_event THEN "L74" ELSE "L88"
    /\ UNCHANGED <<sync, now, trigger, jobFields, locals, history, ret>>

\* lines 74-77, under the Job's lock
RunPauseEnter ==
    /\ pc = "L74"
    /\ IF status = "RUNNING"
       THEN /\ status' = "PAUSED"
            /\ pause_time' = now
       ELSE UNCHANGED <<status, pause_time>>
    /\ pc' = "L80"
    /\ UNCHANGED <<sync, now, trigger, start_time, total_pause_duration,
                   execution_count, cancel_event, pause_event, locals, history,
                   ret>>

\* lines 80-81: while paused and not cancelled: time.sleep(0.01)
RunPauseWait ==
    /\ pc = "L80"
    /\ IF pause_event /\ ~cancel_event
       THEN /\ pc' = "L81"
            /\ wake' = now + Quantum
       ELSE /\ pc' = "L83"
            /\ wake' = None
    /\ UNCHANGED <<sync, now, trigger, jobFields, next_run_time, wait_time,
                   end_wait_time, index_read, history, ret>>

\* line 81: time.sleep(0.01) returns, not before its length has passed
RunPauseWake ==
    /\ pc = "L81"
    /\ now >= wake
    /\ pc' = "L80"
    /\ wake' = None
    /\ UNCHANGED <<sync, now, trigger, jobFields, next_run_time, wait_time,
                   end_wait_time, index_read, history, ret>>

\* lines 83-86, under the Job's lock
RunPauseExit ==
    /\ pc = "L83"
    /\ IF status = "PAUSED" /\ ~cancel_event
       THEN /\ total_pause_duration' = total_pause_duration + (now - pause_time)
            /\ status' = "RUNNING"
       ELSE UNCHANGED <<status, total_pause_duration>>
    /\ pc' = "L88"
    /\ UNCHANGED <<sync, now, trigger, start_time, pause_time, execution_count,
                   cancel_event, pause_event, locals, history, ret>>

\* lines 88-89: if self.cancel_event.is_set(): break
RunCancelCheck2 ==
    /\ pc = "L88"
    /\ pc' = IF cancel_event THEN "L133" ELSE "L92"
    /\ UNCHANGED <<sync, now, trigger, jobFields, locals, history, ret>>

\* lines 92-94: next_run_time = self.trigger.get_next_run_time()
RunGetNext ==
    /\ pc = "L92"
    /\ LET r == get_next_run_time(trigger, now) IN
        /\ trigger' = r.trigger
        /\ next_run_time' = r.ret
        /\ pc' = IF r.ret = None THEN "L133" ELSE "L97"
    /\ UNCHANGED <<sync, now, jobFields, wait_time, end_wait_time, wake, index_read,
                   history, ret>>

\* lines 102-103: the run time of a Timestamp trigger, moved by the time paused
adjusted_run_time(nrt) == start_time + (nrt - start_time) + total_pause_duration

\* lines 97-105: current_time = time.time() and the wait it leaves
RunComputeWait ==
    /\ pc = "L97"
    /\ wait_time' = IF trigger.trigger_type = "timestamp"
                    THEN adjusted_run_time(next_run_time) - now
                    ELSE next_run_time - now
    /\ pc' = "L107"
    /\ UNCHANGED <<sync, now, trigger, jobFields, next_run_time, end_wait_time, wake,
                   index_read, history, ret>>

\* lines 107-109: end_wait_time = time.time() + wait_time
RunStartWait ==
    /\ pc = "L107"
    /\ IF wait_time > 0
       THEN /\ end_wait_time' = now + wait_time
            /\ pc' = "L110"
       ELSE /\ end_wait_time' = None
            /\ pc' = "L113"
    /\ wait_time' = 0
    /\ UNCHANGED <<sync, now, trigger, jobFields, next_run_time, wake, index_read,
                   history, ret>>

\* line 110: the condition of the incremental wait
RunWaitCheck ==
    /\ pc = "L110"
    /\ IF now < end_wait_time /\ ~cancel_event /\ ~pause_event
       THEN /\ pc' = "L111"
            /\ end_wait_time' = end_wait_time
       ELSE /\ pc' = "L113"
            /\ end_wait_time' = None
    /\ UNCHANGED <<sync, now, trigger, jobFields, next_run_time, wait_time, wake,
                   index_read, history, ret>>

\* line 111: time.sleep(min(0.01, end_wait_time - time.time())); the clock is
\* read again, and time.sleep raises ValueError on a negative length, which
\* the except clause of lines 137-138 turns into the end of the thread
RunWaitSleep ==
    /\ pc = "L111"
    /\ LET length == Min(Quantum, end_wait_time - now) IN
        IF length < 0
        THEN /\ pc' = "failed"
             /\ next_run_time' = None
             /\ end_wait_time' = None
             /\ wake' = None
        ELSE /\ pc' = "L111s"
             /\ wake' = now + length
             /\ UNCHANGED <<next_run_time, end_wait_time>>
    /\ UNCHANGED <<sync, now, trigger, jobFields, wait_time, index_read, history, ret>>

\* line 111: time.sleep returns, not before its length has passed
RunWaitWake ==
    /\ pc = "L111s"
    /\ now >= wake
    /\ pc' = "L110"
    /\ wake' = None
    /\ UNCHANGED <<sync, now, trigger, jobFields, next_run_time, wait_time,
                   end_wait_time, index_read, history, ret>>

\* lines 113-114: if cancelled or paused: continue
RunSkipCheck ==
    /\ pc = "L113"
    /\ IF cancel_event \/ pause_event
       THEN /\ pc' = "L68"
            /\ next_run_time' = None
       ELSE /\ pc' = "L117"
            /\ UNCHANGED next_run_time
    /\ UNCHANGED <<sync, now, trigger, jobFields, wait_time, end_wait_time, wake,
                   index_read, history, ret>>

\* lines 117-124: the execution thread is started and counted; the history
\* keeps the run time the trigger returned for it
RunDispatch ==
    /\ pc = "L117"
    /\ execution_count < MaxExec
    /\ dispatched' = Append(dispatched, next_run_time)
    /\ execution_count' = execution_count + 1
    /\ pc' = "L125"
    /\ next_run_time' = None
    /\ UNCHANGED <<sync, now, trigger, status, start_time, pause_time,
                   total_pause_duration, cancel_event, pause_event, wait_time,
                   end_wait_time, wake, index_read, cancelled, paused, ret,
                   probe, results>>

\* lines 125-130: mark_executed where the trigger has it; for a Timestamp
\* trigger the read of current_index that begins "current_index += 1"
RunMark ==
    /\ pc = "L125"
    /\ IF has_mark_executed(trigger)
       THEN /\ trigger' = mark_executed(trigger)
            /\ pc' = "L68"
            /\ UNCHANGED index_read
       ELSE /\ index_read' = trigger.current_index
            /\ pc' = "L130"
            /\ UNCHANGED trigger
    /\ UNCHANGED <<sync, now, jobFields, next_run_time, wait_time, end_wait_time,
                   wake, history, ret>>

\* line 130: the write that ends "self.trigger.current_index += 1"
RunIndexWrite ==
    /\ pc = "L130"
    /\ trigger' = [trigger EXCEPT !.current_index = index_read + 1]
    /\ index_read' = None
    /\ pc' = "L68"
    /\ UNCHANGED <<sync, now, jobFields, next_run_time, wait_time, end_wait_time,
                   wake, history, ret>>

\* an execution thread whose exception reaches the loop thread and ends it
execute_job_unguarded ==
    /\ Len(results) < Len(dispatched)
    /\ \E outcome \in {"returned", "raised"} :
        /\ results' = Append(results, outcome)
        /\ pc' = IF outcome = "raised" THEN "failed" ELSE pc
    /\ UNCHANGED <<sync, now, trigger, jobFields, locals, dispatched, cancelled,
                   paused, probe, ret>>

\* Job._execute_job, lines 140-145, in an execution thread of its own: the
\* work item returns or raises, and what it raises is caught and printed
execute_job ==
    /\ Len(results) < Len(dispatched)
    /\ \E outcome \in {"returned", "raised"} :
        results' = Append(results, outcome)
    /\ UNCHANGED <<sync, now, trigger, jobFields, pc, locals, dispatched, cancelled,
                   paused, probe, ret>>

\* an exit path that sets COMPLETED without looking at the status
RunExitOverwrite ==
    /\ pc = "L133"
    /\ status' = "COMPLETED"
    /\ pc' = "done"
    /\ next_run_time' = None
    /\ UNCHANGED <<sync, now, trigger, start_time, pause_time, total_pause_duration,
                   execution_count, cancel_event, pause_event, wait_time,
                   end_wait_time, wake, index_read, history, ret>>

\* lines 133-135, under the Job's lock; the thread ends
RunExit ==
    /\ pc = "L133"
    /\ status' = IF status # "REMOVED" THEN "COMPLETED" ELSE status
    /\ pc' = "done"
    /\ next_run_time' = None
    /\ UNCHANGED <<sync, now, trigger, start_time, pause_time, total_pause_duration,
                   execution_count, cancel_event, pause_event, wait_time,
                   end_wait_time, wake, index_read, history, ret>>

Next ==
    \/ Tick
    \/ start \/ pause \/ resume \/ cancel \/ get_status
    \/ RunWhile \/ RunCancelCheck \/ RunPauseCheck \/ RunPauseEnter
    \/ RunPauseWait \/ RunPauseWake \/ RunPauseExit \/ RunCancelCheck2
    \/ RunGetNext \/ RunComputeWait \/ RunStartWait \/ RunWaitCheck
    \/ RunWaitSleep \/ RunWaitWake \/ RunSkipCheck \/ RunDispatch
    \/ RunMark \/ RunIndexWrite \/ RunExit

Spec == Init /\ [][Next]_vars

\* ------------------------------------------------------ prompt scheduling
\* The statements about instants ("at each period boundary", "by 0.5 s") are
\* about a loop thread that is scheduled promptly: its statements and the
\* public calls take no time, and a sleep returns when its length has passed.
\* Time then passes only while the loop thread sleeps or does not run.
TimedHorizon == Epoch0 + MaxTimeTimed

TickTimed ==
    /\ now < TimedHorizon
    /\ \/ ThreadDead
       \/ pc \in {"L81", "L111s"} /\ now < wake
    /\ now' = now + 1
    /\ UNCHANGED <<sync, trigger, jobFields, pc, locals, history, ret>>

\* the promptly scheduled runs are those of an Interval job with a run cap
\* that is never cancelled; the start instant of the trigger is the
\* construction or is given and lies after it
InitTimed ==
    /\ now = Epoch0
    /\ trigger \in {IntervalTrigger(p, c, st, Epoch0) :
                      p \in 1..MaxPeriod, c \in 1..MaxRuns, st \in {None, Epoch0 + 1}}
    /\ JobInit

NextTimed ==
    \/ TickTimed
    \/ start \/ pause \/ resume \/ get_status
    \/ RunWhile \/ RunCancelCheck \/ RunPauseCheck \/ RunPauseEnter
    \/ RunPauseWait \/ RunPauseWake \/ RunPauseExit \/ RunCancelCheck2
    \/ RunGetNext \/ RunComputeWait \/ RunStartWait \/ RunWaitCheck
    \/ RunWaitSleep \/ RunWaitWake \/ RunSkipCheck \/ RunDispatch
    \/ RunMark \/ RunExit

SpecTimed == InitTimed /\ [][NextTimed]_vars

\* an Interval job, promptly scheduled and never cancelled, whose period is
\* long enough for a resume to fall well inside it
PauseHorizon == Epoch0 + MaxTimePause

TickPause ==
    /\ now < PauseHorizon
    /\ \/ ThreadDead
       \/ pc \in {"L81", "L111s"} /\ now < wake
    /\ now' = now + 1
    /\ UNCHANGED <<sync, trigger, jobFields, pc, locals, history, ret>>

InitIntervalPause ==
    /\ now = Epoch0
    /\ trigger \in {IntervalTrigger(p, c, st, Epoch0) :
                      p \in 1..MaxPausePeriod, c \in {None, MaxRuns},
                      st \in {None, Epoch0 + 1}}
    /\ JobInit

NextIntervalPause ==
    \/ TickPause
    \/ start \/ pause \/ resume
    \/ RunWhile \/ RunCancelCheck \/ RunPauseCheck \/ RunPauseEnter
    \/ RunPauseWait \/ RunPauseWake \/ RunPauseExit \/ RunCancelCheck2
    \/ RunGetNext \/ RunComputeWait \/ RunStartWait \/ RunWaitCheck
    \/ RunWaitSleep \/ RunWaitWake \/ RunSkipCheck \/ RunDispatch
    \/ RunMark \/ RunExit

SpecIntervalPause == InitIntervalPause /\ [][NextIntervalPause]_vars

\* a Timestamp job, promptly scheduled and never cancelled
InitTimestamp ==
    /\ now = Epoch0
    /\ trigger \in {TimestampTrigger(s) : s \in TimestampInputs}
    /\ JobInit

\* ... that its callers start, pause and resume
NextTimestampPause ==
    \/ TickTimed
    \/ start \/ pause \/ resume
    \/ RunWhile \/ RunCancelCheck \/ RunPauseCheck \/ RunPauseEnter
    \/ RunPauseWait \/ RunPauseWake \/ RunPauseExit \/ RunCancelCheck2
    \/ RunGetNext \/ RunComputeWait \/ RunStartWait \/ RunWaitCheck
    \/ RunWaitSleep \/ RunWaitWake \/ RunSkipCheck \/ RunDispatch
    \/ RunMark \/ RunIndexWrite \/ RunExit

SpecTimestampPause == InitTimestamp /\ [][NextTimestampPause]_vars

\* ... that its callers start and query with get_status(), and never pause
NextTimestampStatus ==
    \/ TickTimed
    \/ start \/ get_status
    \/ RunWhile \/ RunCancelCheck \/ RunPauseCheck \/ RunCancelCheck2
    \/ RunGetNext \/ RunComputeWait \/ RunStartWait \/ RunWaitCheck
    \/ RunWaitSleep \/ RunWaitWake \/ RunSkipCheck \/ RunDispatch
    \/ RunMark \/ RunIndexWrite \/ RunExit

SpecTimestampStatus == InitTimestamp /\ [][NextTimestampStatus]_vars

\* ------------------------------------------------------ the Trigger alone
\* The Trigger's methods called directly, with any reference time, as a
\* caller of the class may: get_next_run_time(after_time) and mark_executed().
RefTimes == 0..2 \cup (Epoch0 - 1)..(Epoch0 + MaxTime + 1)

TriggerGetNextRunTime ==
    \E after_time \in RefTimes :
        LET r == get_next_run_time(trigger, after_time) IN
        /\ trigger' = r.trigger
        /\ probe' = [op |-> "get_next_run_time", after_time |-> after_time,
                     ret |-> r.ret]
        /\ UNCHANGED <<sync, now, jobFields, pc, locals, dispatched, cancelled,
                       paused, ret, results>>

TriggerMarkExecuted ==
    /\ has_mark_executed(trigger)
    /\ trigger.trigger_type = "interval" => trigger.run_count < MaxExec
    /\ trigger' = mark_executed(trigger)
    /\ probe' = [op |-> "mark_executed", after_time |-> None, ret |-> None]
    /\ UNCHANGED <<sync, now, jobFields, pc, locals, dispatched, cancelled, paused,
                   ret, results>>

InitTrigger ==
    /\ now = Epoch0
    /\ trigger \in Triggers(Epoch0)
                     \cup {IntervalTrigger(p, c, Epoch0 + 1, Epoch0) :
                             p \in 1..MaxPeriod, c \in Caps}
    /\ JobInit

NextTrigger == TriggerGetNextRunTime \/ TriggerMarkExecuted

SpecTrigger == InitTrigger /\ [][NextTrigger]_vars

\* ------------------------------------------------- failing work items
\* Jobs of every variant whose schedule is fixed by the trigger (an Interval
\* with a run cap, a list of distinct instants after the construction, a
\* single instant), promptly scheduled, started and left alone, with
\* execution threads whose work items return or raise.
InitExecute ==
    /\ now = Epoch0
    /\ trigger \in
          {IntervalTrigger(p, c, st, Epoch0) :
              p \in 1..MaxPeriod, c \in 1..MaxRuns, st \in {None, Epoch0 + 1}}
          \cup {TimestampTrigger(s) : s \in
                  {q \in SeqsUpTo(AbsInstants, MaxLen) :
                      \A i, j \in 1..Len(q) : i # j => q[i] # q[j]}}
          \cup {OneTimeTrigger(r) : r \in {Epoch0 - 1, Epoch0 + 2}}
    /\ JobInit

NextExecute ==
    \/ TickTimed
    \/ start \/ execute_job
    \/ RunWhile \/ RunCancelCheck \/ RunPauseCheck \/ RunCancelCheck2
    \/ RunGetNext \/ RunComputeWait \/ RunStartWait \/ RunWaitCheck
    \/ RunWaitSleep \/ RunWaitWake \/ RunSkipCheck \/ RunDispatch
    \/ RunMark \/ RunIndexWrite \/ RunExit

SpecExecute == InitExecute /\ [][NextExecute]_vars

\* ---------------------------------------------------------- a OneTime job
\* A OneTime trigger whose methods are called directly before its Job is
\* started, and the Job, promptly scheduled and never cancelled.
BeforeStartGetNextRunTime == pc = "none" /\ TriggerGetNextRunTime

BeforeStartMarkExecuted == pc = "none" /\ TriggerMarkExecuted

InitOneTime ==
    /\ now = Epoch0
    /\ trigger \in {OneTimeTrigger(r) : r \in {Epoch0 - 1, Epoch0 + 2}}
    /\ JobInit

NextOneTime ==
    \/ TickTimed
    \/ BeforeStartGetNextRunTime \/ BeforeStartMarkExecuted
    \/ start \/ pause \/ resume \/ get_status
    \/ RunWhile \/ RunCancelCheck \/ RunPauseCheck \/ RunPauseEnter
    \/ RunPauseWait \/ RunPauseWake \/ RunPauseExit \/ RunCancelCheck2
    \/ RunGetNext \/ RunComputeWait \/ RunStartWait \/ RunWaitCheck
    \/ RunWaitSleep \/ RunWaitWake \/ RunSkipCheck \/ RunDispatch
    \/ RunMark \/ RunExit

SpecOneTime == InitOneTime /\ [][NextOneTime]_vars

\* -------------------------------------------------------------- a Cron job
\* A Cron job, promptly scheduled and never cancelled, that its callers
\* start, pause, resume and query.  Every query moves the croniter, so the
\* queries of the callers are followed up to the horizon of the clock.
get_status_cron == trigger.cron < TimedHorizon /\ get_status

InitCron ==
    /\ now = Epoch0
    /\ trigger \in {CronTrigger(e, c, None, Epoch0) : e \in 1..MaxPeriod, c \in Caps}
    /\ JobInit

NextCron ==
    \/ TickTimed
    \/ start \/ pause \/ resume \/ get_status_cron
    \/ RunWhile \/ RunCancelCheck \/ RunPauseCheck \/ RunPauseEnter
    \/ RunPauseWait \/ RunPauseWake \/ RunPauseExit \/ RunCancelCheck2
    \/ RunGetNext \/ RunComputeWait \/ RunStartWait \/ RunWaitCheck
    \/ RunWaitSleep \/ RunWaitWake \/ RunSkipCheck \/ RunDispatch
    \/ RunMark \/ RunExit

SpecCron == InitCron /\ [][NextCron]_vars

\* --------------------------------------------------------- fair scheduling
\* The loop thread is a daemon thread of the interpreter: as long as it has a
\* statement to execute it is scheduled again, and time passes.  The callers
\* are under no obligation to call anything.  Up to the horizon the clock
\* counts; from there on time still passes but is no longer counted, so a
\* sleep that is under way ends.
TickOn ==
    /\ IF now < Horizon
       THEN /\ now' = now + 1
            /\ UNCHANGED wake
       ELSE /\ pc \in {"L81", "L111s"}
            /\ wake > now
            /\ wake' = now
            /\ UNCHANGED now
    /\ UNCHANGED <<sync, trigger, jobFields, pc, next_run_time, wait_time,
                   end_wait_time, index_read, history, ret>>

\* a step of the loop thread
LoopStep ==
    \/ RunWhile \/ RunCancelCheck \/ RunPauseCheck \/ RunPauseEnter
    \/ RunPauseWait \/ RunPauseWake \/ RunPauseExit \/ RunCancelCheck2
    \/ RunGetNext \/ RunComputeWait \/ RunStartWait \/ RunWaitCheck
    \/ RunWaitSleep \/ RunWaitWake \/ RunSkipCheck \/ RunDispatch
    \/ RunMark \/ RunExit

\* an Interval or OneTime job as Scheduler.add_job leaves it: constructed and
\* started
InitFair ==
    /\ now = Epoch0
    /\ trigger \in {IntervalTrigger(p, c, None, Epoch0) : p \in 1..MaxPeriod, c \in Caps}
                     \cup {OneTimeTrigger(r) : r \in {Epoch0 - 1, Epoch0 + 2}}
    /\ JobInit

NextFair ==
    \/ TickOn
    \/ start \/ pause \/ resume \/ cancel
    \/ LoopStep

SpecFair == InitFair /\ [][NextFair]_vars /\ WF_vars(LoopStep) /\ WF_vars(TickOn)

\* the same Jobs under fair scheduling when no caller ever calls resume()
NextCancel ==
    \/ TickOn
    \/ start \/ pause \/ cancel
    \/ LoopStep

SpecCancel == InitFair /\ [][NextCancel]_vars /\ WF_vars(LoopStep) /\ WF_vars(TickOn)

\* ------------------------------------------------- the locks of the system
\* A thread's frame is the list of statements it has still to execute:
\* <<"acquire", k, j>> and <<"release", k, j>> enter and leave a "with" block
\* of the lock <<k, j>>, and <<"call", f, j>> stands for the code at f of the
\* object j, which the thread has yet to run.
jobState == <<now, trigger, jobFields, pc, locals, history, ret>>

\* with <lock>: body
With(k, j, body) == <<<<"acquire", k, j>>>> \o body \o <<<<"release", k, j>>>>

\* a method of the Trigger: "with self._lock" around its whole body
TriggerCall(j) == With("Trigger", j, <<>>)

\* Job.pause, Job.resume, Job.cancel and the three locked blocks of _run:
\* "with self._lock" around assignments and tests
JobCall(j) == With("Job", j, <<>>)

\* Job.get_status: get_next_run_time() and is_finished() of the trigger are
\* called inside the Job's lock
get_status_frame(j) == With("Job", j, TriggerCall(j) \o TriggerCall(j))

\* Job.start: the thread is tested and started inside the Job's lock
start_frame(j) == With("Job", j, <<<<"call", "start", j>>>>)

\* the frames of fs one after the other
RECURSIVE Concat(_)
Concat(fs) == IF fs = <<>> THEN <<>> ELSE Head(fs) \o Concat(Tail(fs))

InJobs(j) == \E i \in DOMAIN jobs : jobs[i] = j

At(t, f) == frame[t] # <<>> /\ Head(frame[t])[1] = "call" /\ Head(frame[t])[2] = f

\* the thread goes on with frame f and then with what follows the call
Do(t, f) == frame' = [frame EXCEPT ![t] = f \o Tail(@)]

\* a caller enters a method of the Scheduler: "with self._lock"
SchedulerCall(t) ==
    /\ frame[t] = <<>>
    /\ frame' = [frame EXCEPT ![t] = With("Scheduler", "-", <<<<"call", "Scheduler", "-">>>>)]
    /\ UNCHANGED <<jobs, created, lock_owner, lock_count, jobState>>

\* a caller enters pause(), resume(), cancel(), get_status() or start() of a
\* Job it has a reference to: "with self._lock"
JobControl(t, j) ==
    /\ frame[t] = <<>>
    /\ j \in created
    /\ \/ frame' = [frame EXCEPT ![t] = JobCall(j)]
       \/ frame' = [frame EXCEPT ![t] = get_status_frame(j)]
       \/ frame' = [frame EXCEPT ![t] = start_frame(j)]
    /\ UNCHANGED <<jobs, created, lock_owner, lock_count, jobState>>

\* entering a "with" block: RLock.acquire blocks while another thread owns
\* the lock
AcquireLock(t) ==
    /\ frame[t] # <<>>
    /\ Head(frame[t])[1] = "acquire"
    /\ LET l == <<Head(frame[t])[2], Head(frame[t])[3]>> IN
        /\ lock_owner[l] \in {NoThread, t}
        /\ lock_owner' = [lock_owner EXCEPT ![l] = t]
        /\ lock_count' = [lock_count EXCEPT ![l] = @ + 1]
    /\ frame' = [frame EXCEPT ![t] = Tail(@)]
    /\ UNCHANGED <<jobs, created, jobState>>

\* leaving a "with" block
ReleaseLock(t) ==
    /\ frame[t] # <<>>
    /\ Head(frame[t])[1] = "release"
    /\ LET l == <<Head(frame[t])[2], Head(frame[t])[3]>> IN
        /\ lock_count' = [lock_count EXCEPT ![l] = @ - 1]
        /\ lock_owner' = [lock_owner EXCEPT
                             ![l] = IF lock_count[l] = 1 THEN NoThread ELSE @]
    /\ frame' = [frame EXCEPT ![t] = Tail(@)]
    /\ UNCHANGED <<jobs, created, jobState>>

\* The bodies of the Scheduler's methods, each run with the Scheduler lock
\* held.  add_job with a new id: the Job is constructed, registered and
\* started (with an id that is registered it returns as list_jobs does)
add_job(t, j) ==
    /\ At(t, "Scheduler")
    /\ j \notin created
    /\ jobs' = Append(jobs, j)
    /\ created' = created \cup {j}
    /\ Do(t, start_frame(j))
    /\ UNCHANGED <<lock_owner, lock_count, jobState>>

\* pause_job: job.pause() if the id is registered
pause_job(t, j) ==
    /\ At(t, "Scheduler")
    /\ Do(t, IF InJobs(j) THEN JobCall(j) ELSE <<>>)
    /\ UNCHANGED <<jobs, created, lock_owner, lock_count, jobState>>

\* resume_job: job.resume() if the id is registered
resume_job(t, j) ==
    /\ At(t, "Scheduler")
    /\ Do(t, IF InJobs(j) THEN JobCall(j) ELSE <<>>)
    /\ UNCHANGED <<jobs, created, lock_owner, lock_count, jobState>>

\* remove_job: job.cancel() and then del self.jobs[job_id]
remove_job(t, j) ==
    /\ At(t, "Scheduler")
    /\ Do(t, IF InJobs(j) THEN JobCall(j) \o <<<<"call", "del", j>>>> ELSE <<>>)
    /\ UNCHANGED <<jobs, created, lock_owner, lock_count, jobState>>

\* line 111 of Scheduler.py: del self.jobs[job_id]
remove_job_del(t) ==
    /\ At(t, "del")
    /\ jobs' = SelectSeq(jobs, LAMBDA x : x # Head(frame[t])[3])
    /\ Do(t, <<>>)
    /\ UNCHANGED <<created, lock_owner, lock_count, jobState>>

\* get_job_status: job.get_status() if the id is registered
get_job_status(t, j) ==
    /\ At(t, "Scheduler")
    /\ Do(t, IF InJobs(j) THEN get_status_frame(j) ELSE <<>>)
    /\ UNCHANGED <<jobs, created, lock_owner, lock_count, jobState>>

\* list_jobs: the registry is read
list_jobs(t) ==
    /\ At(t, "Scheduler")
    /\ Do(t, <<>>)
    /\ UNCHANGED <<jobs, created, lock_owner, lock_count, jobState>>

\* get_all_statuses: job.get_status() of every registered Job in turn
get_all_statuses(t) ==
    /\ At(t, "Scheduler")
    /\ Do(t, Concat([i \in DOMAIN jobs |-> get_status_frame(jobs[i])]))
    /\ UNCHANGED <<jobs, created, lock_owner, lock_count, jobState>>

\* shutdown: job.cancel() of every registered Job in turn, then jobs.clear()
shutdown(t) ==
    /\ At(t, "Scheduler")
    /\ Do(t, Concat([i \in DOMAIN jobs |-> JobCall(jobs[i])]) \o <<<<"call", "clear", "-">>>>)
    /\ UNCHANGED <<jobs, created, lock_owner, lock_count, jobState>>

\* line 138 of Scheduler.py: self.jobs.clear()
shutdown_clear(t) ==
    /\ At(t, "clear")
    /\ jobs' = <<>>
    /\ Do(t, <<>>)
    /\ UNCHANGED <<created, lock_owner, lock_count, jobState>>

\* Job.start lines 55-63, run with the Job lock held: a loop thread is
\* started unless one is alive
StartThread(t) ==
    /\ At(t, "start")
    /\ LET j == Head(frame[t])[3] IN
        frame' = [frame EXCEPT
                     ![t] = Tail(@),
                     ![LoopThread(j)] = IF @ = <<>> THEN <<<<"call", "L68", j>>>> ELSE @]
    /\ UNCHANGED <<jobs, created, lock_owner, lock_count, jobState>>

\* an exit path that is taken inside the Trigger's lock
exit_frame_in_trigger(j) == With("Trigger", j, JobCall(j))

\* lines 133-135: the exit path of the loop
exit_frame(j) == JobCall(j)

\* Job._run between its locked blocks: from each place of the loop, the
\* statements that follow with the locks they take, for every way the tests
\* of the loop can turn out.  An empty frame ends the thread.
RunLoop(j) ==
    /\ \E at \in {"L68", "L69", "L92", "L113"} :
          /\ At(LoopThread(j), at)
          /\ LET goto(l) == <<<<"call", l, j>>>> IN
             \E f \in
               CASE at = "L68" ->    \* is_finished()
                        {TriggerCall(j) \o goto("L69"), TriggerCall(j) \o exit_frame(j)}
                 [] at = "L69" ->    \* cancel test; lines 73-86 when paused
                        {exit_frame(j), goto("L92"),
                         JobCall(j) \o JobCall(j) \o goto("L92")}
                 [] at = "L92" ->    \* cancel test; get_next_run_time(); the wait
                        {exit_frame(j), TriggerCall(j) \o exit_frame(j),
                         TriggerCall(j) \o goto("L113"), TriggerCall(j)}
                 [] at = "L113" ->   \* continue, or dispatch and mark_executed()
                        {goto("L68"), TriggerCall(j) \o goto("L68")} :
               Do(LoopThread(j), f)
    /\ UNCHANGED <<jobs, created, lock_owner, lock_count, jobState>>

\* a Scheduler whose callers and loop threads run in any interleaving
InitLocks ==
    /\ now = Epoch0
    /\ trigger = BlankTrigger
    /\ JobInit

NextLocks ==
    \/ \E t \in JobCallers, j \in JobIds : JobControl(t, j)
    \/ \E t \in Callers, j \in JobIds :
          \/ add_job(t, j)
          \/ pause_job(t, j)
          \/ resume_job(t, j)
          \/ remove_job(t, j)
          \/ get_job_status(t, j)
    \/ \E t \in Callers :
          \/ SchedulerCall(t)
          \/ remove_job_del(t)
          \/ list_jobs(t)
          \/ get_all_statuses(t)
          \/ shutdown(t)
          \/ shutdown_clear(t)
          \/ StartThread(t)
    \/ \E t \in Threads : AcquireLock(t) \/ ReleaseLock(t)
    \/ \E j \in JobIds : RunLoop(j)

SpecLocks == InitLocks /\ [][NextLocks]_vars

\* ================================================================ claims

\* C1: once cancel() has returned the status is REMOVED, and from then on it
\* stays REMOVED and execution_count never increases again, whatever the loop
\* thread and later calls of pause(), resume(), start(), get_status() do.
C1_CancelStopsDispatch ==
    [][cancelled' => /\ status' = "REMOVED"
                     /\ cancelled => execution_count' = execution_count]_vars

\* C2: the status changes only along RUNNING->PAUSED, PAUSED->RUNNING,
\* RUNNING->COMPLETED and, by cancel() alone, from any state to REMOVED; so
\* REMOVED is never left (the exit path of the loop does not overwrite it)
\* and COMPLETED is left only for REMOVED.
StatusMoves ==
    {<<"RUNNING", "PAUSED">>, <<"PAUSED", "RUNNING">>, <<"RUNNING", "COMPLETED">>}

C2_StatusTransitions ==
    [][status' # status =>
          \/ <<status, status'>> \in StatusMoves
          \/ status' = "REMOVED" /\ cancel]_vars

\* C2 witness: the loop has left through its exit path on a Job that was
\* paused and then cancelled, and the status is still REMOVED
C2_Witness ==
    pc = "done" /\ status = "REMOVED" /\ paused = 1 /\ pause_time # None

\* C3: pause() returns true exactly when the status is RUNNING and then sets
\* the pause signal; resume() returns true exactly when the status is PAUSED
\* or the pause signal is set and then clears the signal; a call that returns
\* false changes nothing, and neither call writes the status.
C3_PauseResume ==
    [][/\ pause => /\ ret' = (status = "RUNNING")
                   /\ ret' => pause_event'
                   /\ ~ret' => UNCHANGED <<trigger, jobFields, pc>>
                   /\ status' = status
       /\ resume => /\ ret' = (status = "PAUSED" \/ pause_event)
                    /\ ret' => ~pause_event'
                    /\ ~ret' => UNCHANGED <<trigger, jobFields, pc>>
                    /\ status' = status]_vars

\* C3 witness: resume() has returned true on a Job the loop had moved to
\* PAUSED; the signal is clear and the status is still PAUSED
C3_Witness ==
    status = "PAUSED" /\ ~pause_event /\ paused = 1 /\ ret = TRUE

\* the first instant anchor + k*p, k >= 0, that lies after t
FirstBoundaryAfter(anchor, p, t) ==
    IF anchor > t THEN anchor ELSE anchor + ((t - anchor) \div p + 1) * p

\* the k-th period boundary after the start of the Job
Boundary(k) ==
    FirstBoundaryAfter(trigger.start_time, trigger.interval_seconds, start_time)
        + (k - 1) * trigger.interval_seconds

ListedRunTimes == [i \in 1..Len(trigger.timestamps) |-> MsToSec(trigger.timestamps[i])]

\* the listed instants count from the start of the job (0 ms, 10 ms, ...)
RelativeList ==
    /\ trigger.trigger_type = "timestamp"
    /\ trigger.timestamps # <<>>
    /\ \A i \in 1..Len(trigger.timestamps) : trigger.timestamps[i] \in RelInstants

\* C5: a Timestamp job whose instants are given relative to its start, never
\* paused or cancelled, has dispatched once per listed instant, in ascending
\* order, when its loop has ended.
C5_RelativeInstantsRun ==
    (RelativeList /\ paused = 0 /\ ~cancelled /\ pc = "done") =>
        /\ execution_count = Len(trigger.timestamps)
        /\ dispatched = ListedRunTimes

\* the cursor positions at or after the cursor whose entry exceeds the
\* reference time of the call that the step makes
Later ==
    {j \in trigger.current_index..(Len(trigger.timestamps) - 1) :
        trigger.timestamps[j + 1] > SecToMs(probe'.after_time)}

\* the step is a call of get_next_run_time on a Timestamp trigger
TimestampCall ==
    trigger.trigger_type = "timestamp" /\ TriggerGetNextRunTime

\* what C6 says of one call: the first entry at or after the cursor that
\* exceeds the reference time is returned, in seconds, and the cursor rests
\* on it; none is returned exactly when there is no such entry; the cursor
\* never decreases and the returned entries never decrease
C6_Call ==
    TimestampCall =>
        /\ IF Later = {}
           THEN /\ probe'.ret = None
                /\ trigger'.current_index = Len(trigger.timestamps)
           ELSE LET j == CHOOSE j \in Later : \A k \in Later : j <= k IN
                /\ probe'.ret = MsToSec(trigger.timestamps[j + 1])
                /\ trigger'.current_index = j
        /\ trigger'.current_index >= trigger.current_index
        /\ (probe.ret # None /\ probe'.ret # None) => probe'.ret >= probe.ret
        /\ trigger'.timestamps = trigger.timestamps

\* a call has returned none (every later call then returns none as well)
ReturnedNone == probe.op = "get_next_run_time" /\ probe.ret = None

\* C6 as stated: is_finished() is true exactly from the first call that
\* returned none onwards.
C6_FinishedFromFirstNone ==
    trigger.trigger_type = "timestamp" => (is_finished(trigger) <=> ReturnedNone)

\* C6, amended: under any sequence of get_next_run_time(ref) calls on a
\* Timestamp trigger each call behaves as C6_Call says; is_finished() is true
\* exactly when the cursor has reached the list length, which for a list that
\* is not empty is from the first call that returned none onwards, and for
\* the empty list is from the construction.
C6_TimestampCursor ==
    /\ [][C6_Call]_vars
    /\ [](trigger.trigger_type = "timestamp" =>
            /\ is_finished(trigger) <=>
                   trigger.current_index = Len(trigger.timestamps)
            /\ trigger.current_index \in 0..Len(trigger.timestamps)
            /\ trigger.timestamps # <<>> => (is_finished(trigger) <=> ReturnedNone)
            /\ trigger.timestamps = <<>> => is_finished(trigger))

\* C6 witness: a call has passed the first of two distinct entries and
\* returned the second
C6_Witness ==
    /\ trigger.trigger_type = "timestamp"
    /\ Len(trigger.timestamps) = 2
    /\ trigger.timestamps[1] < trigger.timestamps[2]
    /\ trigger.current_index = 1
    /\ probe.ret = MsToSec(trigger.timestamps[2])
    /\ probe.after_time >= MsToSec(trigger.timestamps[1])

\* the listed instants are distinct and all lie after the start of the job
DistinctFutureList ==
    /\ trigger.trigger_type = "timestamp"
    /\ trigger.timestamps # <<>>
    /\ start_time # None
    /\ \A i \in 1..Len(trigger.timestamps) :
           trigger.timestamps[i] > SecToMs(start_time)
    /\ \A i, j \in 1..Len(trigger.timestamps) :
           i < j => trigger.timestamps[i] < trigger.timestamps[j]

\* C7: a Timestamp job over distinct instants that are all in the future at
\* its start, never paused or cancelled, has dispatched every listed instant
\* exactly once and in ascending order when its loop has ended, whatever
\* get_status() calls ran beside the loop.
C7_EveryInstantOnce ==
    (DistinctFutureList /\ paused = 0 /\ ~cancelled /\ pc = "done") =>
        dispatched = ListedRunTimes

\* C8: a Timestamp job over distinct future instants that was paused and
\* resumed, and never cancelled, drops none of its instants: when its loop
\* has ended every listed instant has been dispatched, once and in order
\* (each moved forward by the time paused).
C8_PauseDropsNoInstant ==
    (DistinctFutureList /\ paused >= 1 /\ ~cancelled /\ pc = "done") =>
        dispatched = ListedRunTimes

\* the step is a call of get_next_run_time on an Interval trigger whose run
\* cap is not reached
IntervalCall ==
    /\ trigger.trigger_type = "interval"
    /\ ~is_finished(trigger)
    /\ TriggerGetNextRunTime

\* C9: for an Interval trigger with period P > 0 whose run cap is not reached,
\* get_next_run_time(T) returns anchor + k*P for the smallest k >= 0 that
\* makes it greater than T, so a value > T, and leaves the anchor there; a
\* further call with the same T and no mark_executed in between returns the
\* same instant and changes nothing.
C9_IntervalNext ==
    [][IntervalCall =>
        LET T == probe'.after_time
            a == trigger.next_run_time
            P == trigger.interval_seconds
        IN  /\ probe'.ret > T
            /\ \E k \in 0..(IF T >= a THEN T - a + 1 ELSE 0) :
                   /\ probe'.ret = a + k * P
                   /\ \A m \in 0..(k - 1) : a + m * P <= T
            /\ trigger' = [trigger EXCEPT !.next_run_time = probe'.ret]
            /\ (probe.op = "get_next_run_time" /\ probe.after_time = T) =>
                   (probe'.ret = probe.ret /\ trigger' = trigger)]_vars

\* C9 witness: a call has moved the anchor of a trigger with the longest
\* period by two periods or more and returned it
C9_Witness ==
    /\ trigger.trigger_type = "interval"
    /\ trigger.interval_seconds = MaxPeriod
    /\ probe.op = "get_next_run_time"
    /\ probe.ret = trigger.next_run_time
    /\ probe.ret >= trigger.start_time + 2 * trigger.interval_seconds
    /\ probe.ret > probe.after_time

\* the instant at which the loop found the job resumed, when it has been
\* paused once
ResumedAt == pause_time + total_pause_duration

\* the job has run once, was then paused once for more than a period, and
\* is running again
PausedAfterFirstRun ==
    /\ trigger.trigger_type = "interval"
    /\ paused = 1
    /\ Len(dispatched) >= 1
    /\ pause_time # None
    /\ pause_time >= dispatched[1]
    /\ total_pause_duration > trigger.interval_seconds

\* the step is the second dispatch of such a job
SecondRunAfterPause ==
    /\ PausedAfterFirstRun
    /\ Len(dispatched) = 1
    /\ dispatched' # dispatched

\* a and b are a polling quantum apart at most
About(a, b) == a - b <= Quantum /\ b - a <= Quantum

C11_OneTime ==
    /\ [](/\ is_finished(trigger) <=> trigger.executed
          /\ Len(dispatched) <= 1
          /\ execution_count = Len(dispatched)
          /\ (pc = "done" /\ paused = 0 /\ probe = NoProbe) =>
                 /\ dispatched = <<trigger.run_time>>
                 /\ status = "COMPLETED"
                 /\ is_finished(trigger))
    /\ [][/\ TriggerGetNextRunTime =>
              /\ trigger' = trigger
              /\ probe'.ret = IF trigger.executed THEN None ELSE trigger.run_time
          /\ TriggerMarkExecuted => is_finished(trigger')
          /\ trigger.executed => trigger'.executed
          /\ (RunGetNext /\ ~trigger.executed) => next_run_time' = trigger.run_time
          /\ (RunDispatch /\ paused = 0 /\ trigger.run_time <= start_time) =>
                 /\ now = start_time
                 /\ dispatched' = <<trigger.run_time>>]_vars

\* C11 witness: a job whose target was past at its start has dispatched at
\* once, once, and is completed
C11_Witness ==
    /\ trigger.trigger_type = "one_time"
    /\ trigger.run_time < start_time
    /\ now = start_time
    /\ dispatched = <<trigger.run_time>>
    /\ execution_count = 1
    /\ trigger.executed
    /\ pc = "done"
    /\ status = "COMPLETED"

\* C12: the elapsed time get_status() reports is the wall time since start
\* minus the time spent paused: it is never negative, it does not grow with
\* the wall clock while the status is PAUSED, and when the loop ends a pause
\* it is what it was when the loop began the pause.
C12_ElapsedExcludesPause ==
    /\ [](elapsed_time_ms >= 0)
    /\ [][/\ (status = "PAUSED" /\ status' = "PAUSED") =>
                 elapsed_time_ms' <= elapsed_time_ms
          /\ (status = "PAUSED" /\ status' = "RUNNING") =>
                 elapsed_time_ms' =
                     (pause_time - start_time - total_pause_duration) * MsPerUnit]_vars

\* the run times of a job that is started and left alone, when every
\* execution succeeds: the period boundaries after the start up to the cap,
\* the listed instants after the start, the single target
SucceedingRuns ==
    CASE trigger.trigger_type = "interval" ->
            [k \in 1..trigger.max_runs |-> Boundary(k)]
      [] trigger.trigger_type = "timestamp" ->
            SelectSeq(ListedRunTimes, LAMBDA t : t > start_time)
      [] trigger.trigger_type = "one_time" -> <<trigger.run_time>>

\* C13: a work item that raises does not affect scheduling.  An execution
\* thread's end, by return or by exception, changes nothing of the Job, its
\* trigger or its loop, and there is one end per dispatch (no retry); and
\* whatever the executions so far did, the next dispatch is the one of the
\* run in which every execution succeeds, at the same instant, the count is
\* the number of dispatches, and the loop ends with the trigger finished and
\* the status COMPLETED.
C13_FailuresDoNotAffectScheduling ==
    /\ [](/\ execution_count = Len(dispatched)
          /\ Len(results) <= Len(dispatched)
          /\ pc # "failed"
          /\ pc = "done" => (status = "COMPLETED" /\ is_finished(trigger)))
    /\ [][/\ results' # results =>
                 /\ Len(results') = Len(results) + 1
                 /\ UNCHANGED <<now, trigger, jobFields, pc, locals, dispatched>>
          /\ dispatched' # dispatched =>
                 LET k == Len(dispatched) + 1 IN
                 /\ k <= Len(SucceedingRuns)
                 /\ dispatched' = Append(dispatched, SucceedingRuns[k])
                 /\ now = IF SucceedingRuns[k] > start_time
                          THEN SucceedingRuns[k] ELSE start_time
                 /\ results' = results]_vars

\* C13 witness: a job of two runs whose first execution raised before the
\* second was dispatched has made both runs and is completed
C13_Witness ==
    /\ results = <<"raised", "returned">>
    /\ Len(dispatched) = 2
    /\ dispatched[1] < dispatched[2]
    /\ execution_count = 2
    /\ pc = "done"
    /\ status = "COMPLETED"

\* C14: start() returns false and changes nothing while the loop thread is
\* alive, so a loop thread is launched only when none is running; when it
\* returns true it has recorded the start instant, cleared the cancel and
\* pause signals and launched one loop thread at the head of _run, and has
\* written nothing else of the Job or its trigger.
C14_Start ==
    [][start =>
        /\ ret' = ThreadDead
        /\ ~ret' => UNCHANGED <<trigger, jobFields, pc, locals, history>>
        /\ ret' => /\ start_time' = now
                   /\ ~cancel_event' /\ ~pause_event'
                   /\ pc' = "L68"
                   /\ UNCHANGED <<trigger, status, pause_time,
                                  total_pause_duration, execution_count,
                                  history>>]_vars

\* C14 witness: after cancel() ended the loop of a first start(), a second
\* start() has returned true: the cancel signal is cleared, the start instant
\* is the present one and a loop thread is at the head of _run
C14_Witness ==
    /\ ret
    /\ cancelled /\ ~cancel_event
    /\ status = "REMOVED"
    /\ pc = "L68"
    /\ start_time = now
    /\ now > Epoch0

\* the step queries the Cron trigger: the loop's own query or a get_status()
CronQuery ==
    /\ trigger.trigger_type = "cron"
    /\ ~is_finished(trigger)
    /\ RunGetNext \/ get_status

\* the occurrence the croniter stands at was returned by an earlier query,
\* lies ahead and has not been dispatched: the decision it answers is open
CronDecisionOpen ==
    /\ trigger.cron # trigger.start_time
    /\ trigger.cron > now
    /\ \A i \in 1..Len(dispatched) : dispatched[i] # trigger.cron

\* C15: a further query of a Cron trigger for a decision that is still open
\* (no mark_executed since the first query, the clock short of the occurrence
\* returned) returns the same occurrence and leaves the croniter where it
\* stands; so no occurrence is skipped: every dispatch of a job is the
\* occurrence that follows the one dispatched before it, and the first is the
\* one that follows the construction.
C15_CronQueriesIdempotent ==
    [][/\ (CronQuery /\ CronDecisionOpen) => trigger'.cron = trigger.cron
       /\ (trigger.trigger_type = "cron" /\ dispatched' # dispatched) =>
              dispatched'[Len(dispatched')] =
                  CronNext(trigger.cron_expression,
                           IF dispatched = <<>> THEN trigger.start_time
                           ELSE dispatched[Len(dispatched)])]_vars

\* C16: within one Job the scheduled instants of successive dispatches, as
\* returned by its trigger, are strictly increasing: none is dispatched twice
\* and none after a later one, whatever pause(), resume() and get_status()
\* calls run beside the loop.
C16_DispatchesAscend ==
    [][(dispatched' # dispatched /\ dispatched # <<>>) =>
          dispatched'[Len(dispatched')] > dispatched[Len(dispatched)]]_vars

\* the instant an iteration of the loop waits for: the run time the trigger
\* returned, for a Timestamp trigger moved by the time paused
WaitedFor ==
    IF trigger.trigger_type = "timestamp"
    THEN adjusted_run_time(next_run_time)
    ELSE next_run_time

\* C17: an iteration of the loop dispatches only if its wait ran to the
\* scheduled instant: no work item is dispatched before the run time the
\* trigger returned for the iteration, also when a pause() is followed by a
\* resume() before the loop looks at the signal again.
C17_NoDispatchBeforeRunTime ==
    [][dispatched' # dispatched => now >= WaitedFor]_vars

\* C18: every read-modify-write of the trigger's state is atomic with
\* respect to the trigger's other methods, so a get_status() beside the loop's
\* bookkeeping after a dispatch loses or doubles no update: the loop's
\* "current_index += 1" writes one more than the cursor holds at the write,
\* and the Timestamp cursor stays within 0..len(timestamps).
C18_TriggerUpdatesAtomic ==
    [][trigger.trigger_type = "timestamp" =>
          /\ trigger'.current_index \in 0..Len(trigger.timestamps)
          /\ RunIndexWrite => trigger'.current_index = trigger.current_index + 1]_vars

\* C19: whenever the status is COMPLETED the trigger is finished and cancel()
\* has never been called on the Job; a loop that ends because cancel was
\* signalled leaves the status REMOVED.
C19_CompletedMeansFinished ==
    /\ status = "COMPLETED" => (is_finished(trigger) /\ ~cancelled)
    /\ cancel_event => status = "REMOVED"
    /\ (pc = "done" /\ cancelled) => status = "REMOVED"

\* C19 witness: the loop of a job that dispatched and was paused on its way
\* has ended and the job is COMPLETED
C19_Witness ==
    /\ status = "COMPLETED"
    /\ pc = "done"
    /\ is_finished(trigger)
    /\ Len(dispatched) >= 1
    /\ paused = 1
    /\ total_pause_duration > 0

\* C20: once pause() has returned true on a Job whose loop was started, and
\* as long as neither resume() nor cancel() is called, the loop does not come
\* to its dispatch statement again (so at most the one dispatch it had
\* already decided on follows) and the status becomes PAUSED, or COMPLETED if
\* the trigger finished first; no dispatch occurs while the status is PAUSED;
\* and once a resume() has cleared the signal of a PAUSED Job the status
\* returns to RUNNING (or cancel() makes it REMOVED).
C20_PauseTakesEffect ==
    /\ [][/\ (pause_event /\ pause_event' /\ pc' = "L117") => pc = "L117"
          /\ dispatched' # dispatched => status # "PAUSED"]_vars
    /\ (pause_event /\ pc # "none")
          ~> (status \in {"PAUSED", "COMPLETED", "REMOVED"} \/ ~pause_event)
    /\ (status = "PAUSED" /\ ~pause_event) ~> (status # "PAUSED")

\* C21: cancel() always wakes the loop.  Wherever the loop thread is when
\* cancel() sets the signal (in the paused wait, in the wait for the next run
\* time, between two statements), it terminates, with no resume() needed,
\* under fair scheduling; and after cancel() the pause signal is clear.
C21_CancelWakesLoop ==
    /\ [](cancelled => ~pause_event)
    /\ cancel_event ~> ThreadDead

\* C21 witness: a loop that was blocked in the paused wait and never resumed
\* has ended after a cancel()
C21_Witness ==
    /\ cancelled /\ cancel_event
    /\ ~pause_event
    /\ pc = "done"
    /\ status = "REMOVED"
    /\ paused = 1
    /\ pause_time # None
    /\ total_pause_duration = 0
    /\ now > pause_time

\* C22: the loop body never fails.  The loop thread of a Timestamp, Interval
\* or OneTime job ends only through its exit path (trigger finished, no next
\* run time, cancel signaled), so a terminated loop thread leaves the status
\* COMPLETED or REMOVED; in particular the sleep of line 111 is never asked
\* for a negative length.
C22_LoopNeverFails ==
    /\ pc # "failed"
    /\ pc = "done" => status \in {"COMPLETED", "REMOVED"}

\* C23: the system is deadlock-free.  A thread that asks for a lock holds
\* only locks that come before it in the order Scheduler lock, Job lock,
\* Trigger lock (a loop thread holds none); every lock that is held is one
\* its owner has yet to release; and from every thread that waits for a lock
\* the chain of owners ends at a thread that does not wait and can take its
\* next step.  So no set of callers and loop threads waits for ever.
LockRank(l) ==
    CASE l[1] = "Scheduler" -> 1
      [] l[1] = "Job" -> 2
      [] l[1] = "Trigger" -> 3

Held(t) == {l \in Locks : lock_owner[l] = t}

Wants(t) == frame[t] # <<>> /\ Head(frame[t])[1] = "acquire"

Wanted(t) == <<Head(frame[t])[2], Head(frame[t])[3]>>

Blocked(t) == Wants(t) /\ lock_owner[Wanted(t)] \notin {NoThread, t}

\* the code a thread has arrived at can be run
CodeOf(t) ==
    \/ t \in Callers /\ \/ list_jobs(t) \/ remove_job_del(t)
                        \/ shutdown_clear(t) \/ StartThread(t)
    \/ \E j \in JobIds : t = LoopThread(j) /\ RunLoop(j)

\* a thread that is not blocked can take its next step: it acquires a lock
\* that is free or its own, releases one, or runs the code it has arrived at
RECURSIVE Unblocks(_, _)
Unblocks(t, n) ==
    IF Blocked(t)
    THEN n > 0 /\ Unblocks(lock_owner[Wanted(t)], n - 1)
    ELSE (frame[t] # <<>> /\ Head(frame[t])[1] = "call") => ENABLED CodeOf(t)

C23_DeadlockFree ==
    /\ \A t \in Threads :
          Wants(t) => \A h \in Held(t) : LockRank(h) < LockRank(Wanted(t))
    /\ \A j \in JobIds : Wants(LoopThread(j)) => Held(LoopThread(j)) = {}
    /\ \A l \in Locks :
          lock_owner[l] # NoThread =>
             \E i \in DOMAIN frame[lock_owner[l]] :
                frame[lock_owner[l]][i] = <<"release", l[1], l[2]>>
    /\ \A t \in Threads : Unblocks(t, Cardinality(Threads))

\* C23 witness: a registry call that holds the Scheduler lock and a Job's
\* lock waits for the Trigger's lock, which the Job's loop thread holds,
\* while the other caller waits as well
C23_Witness ==
    \E t \in Callers, u \in Callers, j \in JobIds :
       /\ t # u
       /\ Held(t) = {SchedulerLock, JobLock(j)}
       /\ Blocked(t)
       /\ Wanted(t) = TriggerLock(j)
       /\ lock_owner[TriggerLock(j)] = LoopThread(j)
       /\ Blocked(u)

====
